---- MODULE Spec2Model ----
(***************************************************************************)
(* Model of clippy.py: device arbitration (choose_clip), the Windows       *)
(* selection capture (win_capture_selected_text_preserve_clipboard), the   *)
(* send command and the fetch command.                                     *)
(*                                                                         *)
(* A text is a sequence of Unicode code points; the clipboard holds a      *)
(* text (the empty sequence is the empty or non-text clipboard, which the  *)
(* read primitives return as "").                                          *)
(***************************************************************************)
EXTENDS Integers, Sequences, FiniteSets

VARIABLES
    clipboard,   \* the OS clipboard's text
    clip0,       \* history: the clipboard's text when the operation started
    original,    \* local `original` of the capture and of fetch
    \* ---- capture (win_capture_selected_text_preserve_clipboard)
    pc,          \* position in the capture
    new_text,    \* local `new_text`
    polls,       \* iterations of the polling loop done so far
    app,         \* the foreground application: "idle", "pending", "wrote"
    sel,         \* the text selected in the foreground application
    result,      \* the value the capture returned
    sent,        \* key events SendInput accepted, in order
    restores,    \* number of restore writes attempted
    snapFail,    \* history: the snapshot read failed
    pollFail,    \* history: a read of the polling loop failed
    restoreFail, \* history: the restore write failed
    atReturn,    \* history: the clipboard and the application when the capture returned
    stops,       \* history: samples of the polling loop that met the stop condition
    \* ---- fetch
    fpc,         \* position in fetch
    platform,    \* platform.system().lower()
    tools,       \* executables shutil.which finds
    text,        \* the decoded text to inject
    exit_code,   \* code of typer.Exit, 0 on a plain return
    reads,       \* calls of clipboard_get_text
    writes,      \* calls of clipboard_set_text
    log,         \* clipboard and input calls of fetch, in order
    typed,       \* key events the typing primitives delivered
    raisedAt,    \* the step of fetch an exception escaped from
    status,      \* r.status_code of the pull, 0 before it
    papp,        \* the focused application and the paste chord: "idle", "pending", "read"
    pasted,      \* the text the focused application read from the clipboard
    readAt,      \* history: fetch's position when the application read the clipboard
    \* ---- send
    spc,         \* position in send
    primary,     \* the X11 primary selection
    captured,    \* local `text` of send
    send_exit,   \* code of typer.Exit of send, 0 on a plain return
    send_reads,  \* calls of clipboard_get_text by send
    \* ---- choose_clip
    priority,    \* cfg.priority
    items,       \* the items of the pull
    chosen,      \* the value choose_clip returned
    cpc          \* position of the choose_clip call

capVars == <<pc, new_text, polls, app, sel, result, sent, restores, snapFail, pollFail, restoreFail, atReturn>>
fetchVars == <<fpc, platform, tools, text, exit_code, reads, writes, log, typed, raisedAt>>
chooseVars == <<priority, items, cpc>>
pasteVars == <<papp, pasted, readAt>>
sendVars == <<spc, primary, captured, send_exit, send_reads>>
vars == <<clipboard, clip0, original, capVars, stops, fetchVars, status, pasteVars,
          chooseVars, chosen, sendVars>>

----------------------------------------------------------------------------
(* Bounds of the model *)

MaxTextLen == 1
MaxItems == 3
MaxPriority == 3
MaxFetchItems == 1
MaxFetchPriority == 1

Chars == {97, 98}
Devices == {"", "phone", "laptop"}

SeqsUpTo(S, n) == UNION {[1..k -> S] : k \in 0..n}

Texts == SeqsUpTo(Chars, MaxTextLen)

Min(S) == CHOOSE x \in S : \A y \in S : x <= y

----------------------------------------------------------------------------
(* choose_clip *)

None == [clip_id |-> 0, device_id |-> "", content_b64 |-> ""]

MkItems(ds, b64) ==
    [k \in 1..Len(ds) |-> [clip_id |-> k, device_id |-> ds[k], content_b64 |-> b64[k]]]

\* newest_per_device with a later item of a device replacing an earlier one
newest_per_device_overwrite(its) ==
    LET dids == {its[k].device_id : k \in 1..Len(its)} \ {""}
    IN  [d \in dids |->
            its[CHOOSE k \in 1..Len(its) :
                    /\ its[k].device_id = d
                    /\ \A j \in 1..Len(its) : its[j].device_id = d => j <= k]]

\* the dict the first loop builds: device_id -> first item of that device,
\* items with an empty (or missing) device_id skipped
newest_per_device(its) ==
    LET dids == {its[k].device_id : k \in 1..Len(its)} \ {""}
    IN  [d \in dids |-> its[Min({k \in 1..Len(its) : its[k].device_id = d})]]

choose_clip_last(prio, its) ==
    IF its = <<>> THEN None
    ELSE IF prio = <<>> THEN its[1]
    ELSE LET newest == newest_per_device(its)
             hits == {k \in 1..Len(prio) : prio[k] \in DOMAIN newest}
         IN  IF hits = {} THEN its[1]
             ELSE newest[prio[CHOOSE k \in hits : \A j \in hits : j <= k]]

\* choose_clip without the final fallback to items[0]
choose_clip_no_fallback(prio, its) ==
    IF its = <<>> THEN None
    ELSE IF prio = <<>> THEN its[1]
    ELSE LET newest == newest_per_device(its)
             hits == {k \in 1..Len(prio) : prio[k] \in DOMAIN newest}
         IN  IF hits = {} THEN None ELSE newest[prio[Min(hits)]]

choose_clip(prio, its) ==
    IF its = <<>> THEN None
    ELSE IF prio = <<>> THEN its[1]
    ELSE LET newest == newest_per_device(its)
             hits == {k \in 1..Len(prio) : prio[k] \in DOMAIN newest}
         IN  IF hits = {} THEN its[1] ELSE newest[prio[Min(hits)]]

----------------------------------------------------------------------------
(* Values of the variables an operation does not use *)

CapIdle ==
    /\ pc = "off" /\ new_text = <<>> /\ polls = 0 /\ app = "idle" /\ sel = <<>>
    /\ result = <<>> /\ sent = <<>> /\ restores = 0
    /\ snapFail = FALSE /\ pollFail = FALSE /\ restoreFail = FALSE
    /\ atReturn = [clip |-> <<>>, app |-> "idle"]
    /\ stops = 0

FetchIdle ==
    /\ fpc = "off" /\ platform = "windows" /\ tools = {} /\ text = <<>>
    /\ exit_code = 0 /\ reads = 0 /\ writes = 0 /\ log = <<>> /\ typed = <<>>
    /\ raisedAt = "" /\ status = 0
    /\ papp = "idle" /\ pasted = <<>> /\ readAt = ""

ChooseIdle ==
    /\ priority = <<>> /\ items = <<>> /\ cpc = "off"

SendIdle ==
    /\ spc = "off" /\ primary = <<>> /\ captured = <<>> /\ send_exit = 0 /\ send_reads = 0

----------------------------------------------------------------------------
(* Device arbitration alone: choose_clip applied to every bounded input *)

InitChoose ==
    /\ priority \in SeqsUpTo(Devices, MaxPriority)
    /\ items \in {MkItems(ds, [k \in 1..Len(ds) |-> "YQ=="]) : ds \in SeqsUpTo(Devices, MaxItems)}
    /\ cpc = "call"
    /\ chosen = None
    /\ clipboard = <<>> /\ clip0 = <<>> /\ original = <<>>
    /\ CapIdle /\ FetchIdle /\ SendIdle

ChooseCall ==
    /\ cpc = "call"
    /\ chosen' = choose_clip(priority, items)
    /\ cpc' = "ret"
    /\ UNCHANGED <<clipboard, clip0, original, capVars, fetchVars, priority, items,
                   stops, status, pasteVars, sendVars>>

NextChoose == ChooseCall

SpecChoose == InitChoose /\ [][NextChoose]_vars

----------------------------------------------------------------------------
(* Selection capture on Windows, with the foreground application *)

VK_CONTROL == 17
VK_C == 67
PollMax == 50

\* win_send_ctrl_c with the key pressed before the modifier
CtrlC_KeyFirst ==
    << [vk |-> VK_C, keyup |-> FALSE], [vk |-> VK_CONTROL, keyup |-> FALSE],
       [vk |-> VK_C, keyup |-> TRUE], [vk |-> VK_CONTROL, keyup |-> TRUE] >>

\* the four _send_key calls of win_send_ctrl_c, in order
CtrlC ==
    << [vk |-> VK_CONTROL, keyup |-> FALSE], [vk |-> VK_C, keyup |-> FALSE],
       [vk |-> VK_C, keyup |-> TRUE], [vk |-> VK_CONTROL, keyup |-> TRUE] >>

\* safe_get: the clipboard's text, "" when win_get_clipboard_text raises
safe_get(ok) == IF ok THEN clipboard ELSE <<>>

\* win_set_clipboard_text(s) under safe_set: OpenClipboard may fail (nothing
\* changes); after EmptyClipboard a failing GlobalAlloc, GlobalLock or
\* SetClipboardData leaves the clipboard empty
SetOutcomes == {"ok", "open_failed", "emptied"}

win_set_clipboard_text(s, outcome) ==
    CASE outcome = "ok" -> s
      [] outcome = "open_failed" -> clipboard
      [] outcome = "emptied" -> <<>>

InitCapture ==
    /\ clipboard \in Texts /\ clip0 = clipboard /\ original = <<>>
    /\ sel \in Texts
    /\ pc = "snapshot" /\ new_text = <<>> /\ polls = 0 /\ app = "idle"
    /\ result = <<>> /\ sent = <<>> /\ restores = 0
    /\ snapFail = FALSE /\ pollFail = FALSE /\ restoreFail = FALSE
    /\ atReturn = [clip |-> <<>>, app |-> "idle"]
    /\ stops = 0
    /\ chosen = None
    /\ FetchIdle /\ ChooseIdle /\ SendIdle

\* original = safe_get()
CapSnapshot ==
    /\ pc = "snapshot"
    /\ \E ok \in BOOLEAN :
        /\ original' = safe_get(ok)
        /\ snapFail' = ~ok
    /\ pc' = "chord"
    /\ UNCHANGED <<clipboard, clip0, new_text, polls, app, sel, result, sent,
                   restores, pollFail, restoreFail, atReturn, fetchVars, chooseVars, chosen,
                   stops, status, pasteVars, sendVars>>

\* one _send_key of win_send_ctrl_c: SendInput returns n, and n != 1 raises
\* out of the capture; the application sees the copy chord once C goes down
\* with Control held
CapSendKey ==
    /\ pc = "chord"
    /\ \E n \in {0, 1} :
        IF n # 1
        THEN /\ pc' = "raised"
             /\ UNCHANGED <<sent, app>>
        ELSE /\ sent' = Append(sent, CtrlC[Len(sent) + 1])
             /\ pc' = IF Len(sent) + 1 = Len(CtrlC) THEN "poll" ELSE "chord"
             /\ app' = IF Len(sent) + 1 = 2 THEN "pending" ELSE app
    /\ UNCHANGED <<clipboard, clip0, original, new_text, polls, sel, result,
                   restores, snapFail, pollFail, restoreFail, atReturn, fetchVars, chooseVars, chosen,
                   stops, status, pasteVars, sendVars>>

\* CapPoll without the break: the loop always runs its full count
CapPoll_NoBreak ==
    /\ pc = "poll"
    /\ polls < PollMax
    /\ \E ok \in BOOLEAN :
        /\ new_text' = safe_get(ok)
        /\ pollFail' = (pollFail \/ ~ok)
        /\ polls' = polls + 1
        /\ stops' = stops + (IF new_text' # original /\ new_text' # <<>> THEN 1 ELSE 0)
        /\ pc' = IF polls' = PollMax THEN "restore" ELSE "poll"
    /\ UNCHANGED <<clipboard, clip0, original, app, sel, result, sent, restores,
                   snapFail, restoreFail, atReturn, fetchVars, chooseVars, chosen,
                   status, pasteVars, sendVars>>

\* one iteration of the polling loop
CapPoll ==
    /\ pc = "poll"
    /\ polls < PollMax
    /\ \E ok \in BOOLEAN :
        /\ new_text' = safe_get(ok)
        /\ pollFail' = (pollFail \/ ~ok)
        /\ polls' = polls + 1
        /\ stops' = stops + (IF new_text' # original /\ new_text' # <<>> THEN 1 ELSE 0)
        /\ pc' = IF (new_text' # original /\ new_text' # <<>>) \/ polls' = PollMax
                 THEN "restore" ELSE "poll"
    /\ UNCHANGED <<clipboard, clip0, original, app, sel, result, sent, restores,
                   snapFail, restoreFail, atReturn, fetchVars, chooseVars, chosen,
                   status, pasteVars, sendVars>>

\* CapRestore with the captured text written back instead of `original`
CapRestore_WritesCapture ==
    /\ pc = "restore"
    /\ \E o \in SetOutcomes :
        /\ clipboard' = win_set_clipboard_text(new_text, o)
        /\ restoreFail' = (o # "ok")
    /\ restores' = restores + 1
    /\ result' = new_text
    /\ atReturn' = [clip |-> clipboard', app |-> app]
    /\ pc' = "done"
    /\ UNCHANGED <<clip0, original, new_text, polls, app, sel, sent, snapFail,
                   pollFail, fetchVars, chooseVars, chosen,
                   stops, status, pasteVars, sendVars>>

\* safe_set(original); return new_text
CapRestore ==
    /\ pc = "restore"
    /\ \E o \in SetOutcomes :
        /\ clipboard' = win_set_clipboard_text(original, o)
        /\ restoreFail' = (o # "ok")
    /\ restores' = restores + 1
    /\ result' = new_text
    /\ atReturn' = [clip |-> clipboard', app |-> app]
    /\ pc' = "done"
    /\ UNCHANGED <<clip0, original, new_text, polls, app, sel, sent, snapFail,
                   pollFail, fetchVars, chooseVars, chosen,
                   stops, status, pasteVars, sendVars>>

\* the foreground application handles the copy chord on its own schedule
AppCopy ==
    /\ app = "pending"
    /\ clipboard' = sel
    /\ app' = "wrote"
    /\ UNCHANGED <<clip0, original, pc, new_text, polls, sel, result, sent, restores,
                   snapFail, pollFail, restoreFail, atReturn, fetchVars, chooseVars, chosen,
                   stops, status, pasteVars, sendVars>>

NextCapture == CapSnapshot \/ CapSendKey \/ CapPoll \/ CapRestore \/ AppCopy

SpecCapture == InitCapture /\ [][NextCapture]_vars

\* the polling loop is the program's own sequential code: it keeps stepping
SpecCaptureFair == SpecCapture /\ WF_vars(CapPoll)

----------------------------------------------------------------------------
(* fetch: pull, arbitration, decoding and injection *)

KEYEVENTF_KEYUP == 2
KEYEVENTF_UNICODE == 4
WordSize == 65536

Platforms == {"windows", "linux", "darwin"}
LinuxTools == {"xdotool", "wl-paste", "xclip", "xsel"}

\* content_b64 values of the pull, and base64.b64decode(...).decode("utf-8",
\* errors="replace") of each: "/w==" is the byte FF, which decodes to U+FFFD;
\* "YQ" has incorrect padding and raises
B64Payloads == {"", "YQ==", "Yg==", "/w==", "8J+YgA==", "YQ"}

b64decode_utf8(b) ==
    CASE b = "" -> [ok |-> TRUE, text |-> <<>>]
      [] b = "YQ==" -> [ok |-> TRUE, text |-> <<97>>]
      [] b = "Yg==" -> [ok |-> TRUE, text |-> <<98>>]
      [] b = "/w==" -> [ok |-> TRUE, text |-> <<65533>>]
      [] b = "8J+YgA==" -> [ok |-> TRUE, text |-> <<128512>>]
      [] OTHER -> [ok |-> FALSE, text |-> <<>>]

FetchItems ==
    UNION {{MkItems(ds, bs) : ds \in [1..k -> Devices], bs \in [1..k -> B64Payloads]} :
           k \in 0..MaxFetchItems}

\* which injection fetch uses on a platform
InjectMethod_NoType(sys, tls) ==
    IF sys = "windows" THEN "win_type" ELSE "paste"

InjectMethod(sys, tls) ==
    IF sys = "windows" THEN "win_type"
    ELSE IF sys = "linux" /\ "xdotool" \in tls THEN "x11_type"
    ELSE "paste"

\* clipboard_get_text: every tool runs under _run(check=True)
ReadOutcomes(sys, tls) ==
    IF sys \in {"darwin", "windows"} THEN {"ok", "raise"}
    ELSE IF tls \cap {"wl-paste", "xclip", "xsel"} = {} THEN {"raise"}
    ELSE {"ok", "raise"}

\* clipboard_set_text: pbcopy and powershell run under _run(check=True); xclip
\* and xsel are started with Popen and their exit status is never read
\* ("silent": the tool failed or was killed after the 0.5 s wait, nothing
\* written, nothing raised); a closed pipe raises
WriteOutcomes(sys, tls) ==
    IF sys \in {"darwin", "windows"} THEN {"ok", "raise"}
    ELSE IF tls \cap {"xclip", "xsel"} = {} THEN {"raise"}
    ELSE {"ok", "silent", "raise"}

\* paste_active_window
PasteOutcomes(sys, tls) ==
    IF sys = "darwin" THEN {"ok", "raise"}
    ELSE IF sys = "linux" /\ "xdotool" \in tls THEN {"ok", "raise"}
    ELSE {"raise"}

\* the statement order of the clipboard-mediated path
After_PasteFirst(step) ==
    CASE step = "snapshot" -> "paste"
      [] step = "paste" -> "set"
      [] step = "set" -> "restore"
      [] step = "restore" -> "done"

After(step) ==
    CASE step = "snapshot" -> "set"
      [] step = "set" -> "paste"
      [] step = "paste" -> "restore"
      [] step = "restore" -> "done"

Entry(op, val) == [op |-> op, val |-> val]

\* the down and up events win_type_text builds for a text: wScan is a 16-bit
\* WORD, so ctypes keeps the code point modulo 2^16
WinEvents(t) ==
    [k \in 1..(2 * Len(t)) |->
        [scan |-> t[(k + 1) \div 2] % WordSize,
         flags |-> IF k % 2 = 1 THEN KEYEVENTF_UNICODE
                   ELSE KEYEVENTF_UNICODE + KEYEVENTF_KEYUP]]

RECURSIVE Accepted(_, _)
Accepted(evs, mask) ==
    IF evs = <<>> THEN <<>>
    ELSE (IF mask[1] THEN <<evs[1]>> ELSE <<>>) \o Accepted(Tail(evs), Tail(mask))

InitFetch ==
    /\ clipboard \in Texts /\ clip0 = clipboard /\ original = <<>>
    /\ platform \in Platforms
    /\ tools \in IF platform = "linux" THEN SUBSET LinuxTools ELSE {{}}
    /\ fpc = "pull" /\ text = <<>> /\ exit_code = 0 /\ reads = 0 /\ writes = 0
    /\ log = <<>> /\ typed = <<>> /\ raisedAt = "" /\ status = 0
    /\ papp = "idle" /\ pasted = <<>> /\ readAt = ""
    /\ chosen = None
    /\ CapIdle /\ ChooseIdle /\ SendIdle

\* the codes of fetch's three typer.Exit, all given the same value
ExitCodeOf_Same(outcome) == 1

\* the codes of fetch's three typer.Exit
ExitCodeOf(outcome) ==
    CASE outcome = "http" -> 1
      [] outcome = "no_clips" -> 2
      [] outcome = "no_payload" -> 3

\* requests.get, choose_clip, the content_b64 check and the decoding
FetchPull ==
    /\ fpc = "pull"
    /\ \E st \in {200, 500}, prio \in SeqsUpTo(Devices, MaxFetchPriority), its \in FetchItems :
        /\ status' = st
        /\ IF st # 200
           THEN /\ fpc' = "exit" /\ exit_code' = ExitCodeOf("http")
                /\ UNCHANGED <<chosen, text, raisedAt>>
           ELSE /\ chosen' = choose_clip(prio, its)
                /\ IF chosen' = None
                   THEN /\ fpc' = "exit" /\ exit_code' = ExitCodeOf("no_clips")
                        /\ UNCHANGED <<text, raisedAt>>
                   ELSE IF chosen'.content_b64 = ""
                   THEN /\ fpc' = "exit" /\ exit_code' = ExitCodeOf("no_payload")
                        /\ UNCHANGED <<text, raisedAt>>
                   ELSE IF ~b64decode_utf8(chosen'.content_b64).ok
                   THEN /\ fpc' = "raised" /\ raisedAt' = "decode"
                        /\ UNCHANGED <<text, exit_code>>
                   ELSE /\ text' = b64decode_utf8(chosen'.content_b64).text
                        /\ fpc' = "inject"
                        /\ UNCHANGED <<exit_code, raisedAt>>
    /\ UNCHANGED <<clipboard, clip0, original, platform, tools, reads, writes, log,
                   typed, capVars, chooseVars, stops, pasteVars, sendVars>>

\* win_type_text(text); return: SendInput's result is not looked at, so an
\* event the OS rejects is dropped and the typing goes on
FetchTypeWin ==
    /\ fpc = "inject"
    /\ InjectMethod(platform, tools) = "win_type"
    /\ \E mask \in [1..(2 * Len(text)) -> BOOLEAN] :
        typed' = Accepted(WinEvents(text), mask)
    /\ log' = Append(log, Entry("type", text))
    /\ fpc' = "done"
    /\ UNCHANGED <<clipboard, clip0, original, platform, tools, text, exit_code,
                   reads, writes, raisedAt, capVars, chooseVars, chosen,
                   stops, status, pasteVars, sendVars>>

\* x11_type_text(text): xdotool under check=True
FetchTypeX11 ==
    /\ fpc = "inject"
    /\ InjectMethod(platform, tools) = "x11_type"
    /\ log' = Append(log, Entry("type", text))
    /\ \E o \in {"ok", "raise"} :
        IF o = "ok"
        THEN fpc' = "done" /\ UNCHANGED raisedAt
        ELSE fpc' = "raised" /\ raisedAt' = "type"
    /\ UNCHANGED <<clipboard, clip0, original, platform, tools, text, exit_code,
                   reads, writes, typed, capVars, chooseVars, chosen,
                   stops, status, pasteVars, sendVars>>

\* original = clipboard_get_text()
FetchSnapshot ==
    /\ fpc = "inject"
    /\ InjectMethod(platform, tools) = "paste"
    /\ reads' = reads + 1
    /\ log' = Append(log, Entry("read", <<>>))
    /\ \E o \in ReadOutcomes(platform, tools) :
        IF o = "ok"
        THEN original' = clipboard /\ fpc' = After("snapshot") /\ UNCHANGED raisedAt
        ELSE fpc' = "raised" /\ raisedAt' = "snapshot" /\ UNCHANGED original
    /\ UNCHANGED <<clipboard, clip0, platform, tools, text, exit_code, writes,
                   typed, capVars, chooseVars, chosen,
                   stops, status, pasteVars, sendVars>>

\* clipboard_set_text(text)
FetchSetPayload ==
    /\ fpc = "set"
    /\ writes' = writes + 1
    /\ log' = Append(log, Entry("write", text))
    /\ \E o \in WriteOutcomes(platform, tools) :
        /\ clipboard' = IF o = "ok" THEN text ELSE clipboard
        /\ IF o = "raise"
           THEN fpc' = "raised" /\ raisedAt' = "set"
           ELSE fpc' = After("set") /\ UNCHANGED raisedAt
    /\ UNCHANGED <<clip0, original, platform, tools, text, exit_code, reads,
                   typed, capVars, chooseVars, chosen,
                   stops, status, pasteVars, sendVars>>

\* paste_active_window()
FetchPaste ==
    /\ fpc = "paste"
    /\ log' = Append(log, Entry("paste", <<>>))
    /\ \E o \in PasteOutcomes(platform, tools) :
        IF o = "ok"
        THEN fpc' = After("paste") /\ papp' = "pending" /\ UNCHANGED raisedAt
        ELSE fpc' = "raised" /\ raisedAt' = "paste" /\ UNCHANGED papp
    /\ UNCHANGED <<clipboard, clip0, original, platform, tools, text, exit_code,
                   reads, writes, typed, capVars, chooseVars, chosen,
                   stops, status, pasted, readAt, sendVars>>

\* the focused application handles the paste chord on its own schedule: it
\* reads whatever the clipboard holds at that moment
AppPaste ==
    /\ papp = "pending"
    /\ pasted' = clipboard
    /\ readAt' = fpc
    /\ papp' = "read"
    /\ UNCHANGED <<clipboard, clip0, original, capVars, stops, fetchVars, status,
                   chooseVars, chosen, sendVars>>

\* FetchRestore with the restore write dropped
FetchRestore_Skipped ==
    /\ fpc = "restore"
    /\ fpc' = After("restore")
    /\ UNCHANGED <<clipboard, clip0, original, platform, tools, text, exit_code, reads,
                   writes, log, typed, raisedAt, capVars, chooseVars, chosen,
                   stops, status, pasteVars, sendVars>>

\* clipboard_set_text(original)
FetchRestore ==
    /\ fpc = "restore"
    /\ writes' = writes + 1
    /\ log' = Append(log, Entry("write", original))
    /\ \E o \in WriteOutcomes(platform, tools) :
        /\ clipboard' = IF o = "ok" THEN original ELSE clipboard
        /\ IF o = "raise"
           THEN fpc' = "raised" /\ raisedAt' = "restore"
           ELSE fpc' = After("restore") /\ UNCHANGED raisedAt
    /\ UNCHANGED <<clip0, original, platform, tools, text, exit_code, reads,
                   typed, capVars, chooseVars, chosen,
                   stops, status, pasteVars, sendVars>>

NextFetch ==
    \/ FetchPull \/ FetchTypeWin \/ FetchTypeX11
    \/ FetchSnapshot \/ FetchSetPayload \/ FetchPaste \/ FetchRestore
    \/ AppPaste

SpecFetch == InitFetch /\ [][NextFetch]_vars

----------------------------------------------------------------------------
(* send: capture, emptiness check and push *)

\* characters str.strip() removes (the ASCII ones)
Whitespace == {9, 10, 11, 12, 13, 32}

RECURSIVE LStrip(_)
LStrip(t) == IF t # <<>> /\ Head(t) \in Whitespace THEN LStrip(Tail(t)) ELSE t

RECURSIVE RStrip(_)
RStrip(t) ==
    IF t # <<>> /\ t[Len(t)] \in Whitespace THEN RStrip(SubSeq(t, 1, Len(t) - 1)) ELSE t

Strip(t) == RStrip(LStrip(t))

SendTexts == SeqsUpTo(Chars \cup {32}, MaxTextLen)

\* whether x11_get_primary_text can read the primary selection
HasPrimaryRead(sys, tls) == sys = "linux" /\ "xclip" \in tls

InitSend ==
    /\ platform \in Platforms
    /\ tools \in IF platform = "linux" THEN SUBSET LinuxTools ELSE {{}}
    /\ clipboard \in SendTexts /\ clip0 = clipboard /\ original = <<>>
    /\ primary \in IF platform = "linux" THEN Texts ELSE {<<>>}
    /\ sel \in IF platform = "windows" THEN Texts ELSE {<<>>}
    /\ pc = IF platform = "windows" THEN "snapshot" ELSE "off"
    /\ new_text = <<>> /\ polls = 0 /\ app = "idle"
    /\ result = <<>> /\ sent = <<>> /\ restores = 0
    /\ snapFail = FALSE /\ pollFail = FALSE /\ restoreFail = FALSE
    /\ atReturn = [clip |-> <<>>, app |-> "idle"]
    /\ stops = 0
    /\ spc = "capture" /\ captured = <<>> /\ send_exit = 0 /\ send_reads = 0
    /\ fpc = "off" /\ text = <<>> /\ exit_code = 0 /\ reads = 0 /\ writes = 0
    /\ log = <<>> /\ typed = <<>> /\ raisedAt = "" /\ status = 0
    /\ papp = "idle" /\ pasted = <<>> /\ readAt = ""
    /\ chosen = None
    /\ ChooseIdle

\* text = win_capture_selected_text_preserve_clipboard(), or its exception
SendAfterCapture ==
    /\ spc = "capture"
    /\ platform = "windows"
    /\ pc \in {"done", "raised"}
    /\ IF pc = "done"
       THEN captured' = result /\ spc' = "check"
       ELSE spc' = "raised" /\ UNCHANGED captured
    /\ UNCHANGED <<clipboard, clip0, original, capVars, stops, fetchVars, status,
                   pasteVars, chooseVars, chosen, primary, send_exit, send_reads>>

\* text = clipboard_get_text(): the branch of every platform but Windows
SendReadClipboard ==
    /\ spc = "capture"
    /\ platform # "windows"
    /\ send_reads' = send_reads + 1
    /\ \E o \in ReadOutcomes(platform, tools) :
        IF o = "ok"
        THEN captured' = clipboard /\ spc' = "check"
        ELSE spc' = "raised" /\ UNCHANGED captured
    /\ UNCHANGED <<clipboard, clip0, original, capVars, stops, fetchVars, status,
                   pasteVars, chooseVars, chosen, primary, send_exit>>

\* if not text.strip(): raise typer.Exit(code=2)
SendCheck ==
    /\ spc = "check"
    /\ IF Strip(captured) = <<>>
       THEN spc' = "exit" /\ send_exit' = 2
       ELSE spc' = "post" /\ UNCHANGED send_exit
    /\ UNCHANGED <<clipboard, clip0, original, capVars, stops, fetchVars, status,
                   pasteVars, chooseVars, chosen, primary, captured, send_reads>>

\* requests.post and the status check
SendPost ==
    /\ spc = "post"
    /\ \E o \in {"200", "other", "raise"} :
        CASE o = "200" -> spc' = "done" /\ UNCHANGED send_exit
          [] o = "other" -> spc' = "exit" /\ send_exit' = 3
          [] o = "raise" -> spc' = "raised" /\ UNCHANGED send_exit
    /\ UNCHANGED <<clipboard, clip0, original, capVars, stops, fetchVars, status,
                   pasteVars, chooseVars, chosen, primary, captured, send_reads>>

NextSend ==
    \/ CapSnapshot \/ CapSendKey \/ CapPoll \/ CapRestore \/ AppCopy
    \/ SendAfterCapture \/ SendReadClipboard \/ SendCheck \/ SendPost

SpecSend == InitSend /\ [][NextSend]_vars

----------------------------------------------------------------------------
(* Claims about the capture, checked under SpecCapture *)

\* C1 (as stated): whenever the application wrote the selection T # O before
\* the capture returned, the clipboard holds O when the capture returns.
C1_RoundTrip ==
    (pc = "done" /\ atReturn.app = "wrote" /\ sel # clip0) => atReturn.clip = clip0

\* C1 (amended): the same, provided the snapshot read and the restore write
\* both succeeded.
C1_RoundTripWhenAccessSucceeds ==
    (pc = "done" /\ atReturn.app = "wrote" /\ sel # clip0 /\ ~snapFail /\ ~restoreFail)
        => atReturn.clip = clip0

C1_Witness ==
    /\ pc = "done" /\ atReturn.app = "wrote" /\ sel # clip0 /\ clip0 # <<>>
    /\ ~snapFail /\ ~restoreFail
    /\ result = sel /\ atReturn.clip = clip0

\* C2: when the clipboard did not change before the capture returned (and
\* every read of it succeeded), the capture returns the empty text and
\* attempted the restore write exactly once.
C2_UnchangedGivesEmpty ==
    (pc = "done" /\ (atReturn.app # "wrote" \/ sel = clip0) /\ ~snapFail /\ ~pollFail)
        => (result = <<>> /\ restores = 1)

\* C3: no failure of a sub-step makes the capture end by raising.
C3_CaptureNeverRaises == pc # "raised"

\* C4: when control has left the capture, by return or by exception, the
\* restore write was attempted.
C4_RestoreBeforeLeaving == (pc \in {"done", "raised"}) => restores >= 1

----------------------------------------------------------------------------
(* Claims about fetch, checked under SpecFetch *)

TypingPlatform == platform = "windows" \/ (platform = "linux" /\ "xdotool" \in tools)

PasteMediated == \E k \in 1..Len(log) : log[k].op = "paste"

\* C5: on a platform where fetch types the text, fetch never calls the
\* clipboard read or write primitive and the clipboard keeps its value.
C5_TypingNeverTouchesClipboard ==
    (fpc # "off" /\ TypingPlatform)
        => /\ reads = 0 /\ writes = 0
           /\ \A k \in 1..Len(log) : log[k].op = "type"
           /\ clipboard = clip0

C5_Witness ==
    /\ fpc = "done" /\ platform = "linux" /\ "xdotool" \in tools /\ "xclip" \in tools
    /\ text # <<>> /\ log = <<Entry("type", text)>>
    /\ reads = 0 /\ writes = 0

\* C6: a fetch that pasted through the clipboard and completed leaves the
\* clipboard equal to its value O before the injection.
C6_PasteRestoresClipboard ==
    (fpc = "done" /\ PasteMediated) => clipboard = clip0

C6_Witness ==
    /\ fpc = "done" /\ PasteMediated /\ clip0 # <<>> /\ text # clip0 /\ clipboard = clip0

\* C7: a fetch that pasted through the clipboard and completed made exactly
\* one read and two writes, in the order read, write of the payload, paste
\* chord, write of the snapshot.
C7_PasteCallOrder ==
    (fpc = "done" /\ PasteMediated)
        => /\ reads = 1 /\ writes = 2
           /\ log = <<Entry("read", <<>>), Entry("write", text),
                      Entry("paste", <<>>), Entry("write", original)>>

C7_Witness ==
    /\ fpc = "done" /\ PasteMediated /\ Len(log) = 4 /\ text # original
    /\ original # <<>>

\* C8: a failing restore write never ends the operation in an error, neither
\* in the capture nor in fetch's clipboard-mediated injection.
C8_RestoreFailureAbsorbed ==
    /\ restoreFail => pc = "done"
    /\ ~(fpc = "raised" /\ raisedAt = "restore")

\* C9: in every terminal state of fetch the clipboard holds its pre-fetch value.
C9_FetchNeverClobbers ==
    (fpc \in {"done", "exit", "raised"}) => clipboard = clip0

----------------------------------------------------------------------------
(* Claims about choose_clip, checked under SpecChoose *)

ItemDevices == {items[k].device_id : k \in 1..Len(items)}

\* C10 (as stated): when some priority device_id occurs in items, choose_clip
\* returns a clip of the first priority device_id that occurs in items.
C10_FirstPriorityMatch ==
    LET hits == {k \in 1..Len(priority) : priority[k] \in ItemDevices}
    IN  (cpc = "ret" /\ hits # {})
            => (chosen.device_id = priority[Min(hits)] /\ chosen.clip_id # 0)

\* C10 (amended): when some non-empty priority device_id occurs in items,
\* choose_clip returns a clip of the first non-empty priority device_id that
\* occurs in items.
C10_FirstNonEmptyPriorityMatch ==
    LET hits == {k \in 1..Len(priority) : priority[k] # "" /\ priority[k] \in ItemDevices}
    IN  (cpc = "ret" /\ hits # {})
            => /\ chosen.device_id = priority[Min(hits)]
               /\ \E k \in 1..Len(items) : items[k] = chosen

C10_Witness ==
    /\ cpc = "ret" /\ Len(priority) >= 2 /\ Len(items) >= 2
    /\ priority[1] \notin ItemDevices
    /\ priority[2] # "" /\ priority[2] \in ItemDevices
    /\ items[1].device_id \notin {"", priority[2]}
    /\ chosen.device_id = priority[2]

\* C11: when priority selects a device, the clip returned is the first entry
\* of that device in items order, never a later one.
C11_NewestOfSelectedDevice ==
    LET hits == {k \in 1..Len(priority) : priority[k] # "" /\ priority[k] \in ItemDevices}
    IN  (cpc = "ret" /\ hits # {})
            => \A j \in 1..Len(items) :
                   items[j].device_id = chosen.device_id => chosen.clip_id <= items[j].clip_id

C11_Witness ==
    /\ cpc = "ret" /\ Len(items) = 3 /\ priority # <<>>
    /\ items[2].device_id = priority[1] /\ items[3].device_id = priority[1]
    /\ items[1].device_id # priority[1] /\ priority[1] # ""
    /\ chosen = items[2]

\* C12: choose_clip returns none exactly when items is empty; for non-empty
\* items it returns items[0] when priority is empty or no priority device_id
\* occurs in items; a result other than none is an element of items.
C12_NoneAndFallback ==
    cpc = "ret" =>
        /\ (chosen = None) <=> (items = <<>>)
        /\ (items # <<>> /\ \A k \in 1..Len(priority) : priority[k] \notin ItemDevices)
               => chosen = items[1]
        /\ items # <<>> => \E k \in 1..Len(items) : items[k] = chosen

C12_Witness ==
    /\ cpc = "ret" /\ Len(items) >= 2 /\ priority # <<>>
    /\ \A k \in 1..Len(priority) : priority[k] \notin ItemDevices
    /\ chosen = items[1] /\ items[2] # chosen

----------------------------------------------------------------------------
(* Further claims about fetch, checked under SpecFetch *)

\* C13: the exits for a failed pull, for no clip and for a missing payload
\* carry pairwise distinct non-zero codes; in each of them nothing was typed
\* or pasted and the clipboard was neither read nor written; injection starts
\* only after a pull with status 200, a chosen clip and a non-empty payload.
C13_ExitCodesAndNoInjection ==
    /\ fpc = "exit" =>
          /\ exit_code \in {1, 2, 3}
          /\ (exit_code = 1) <=> (status # 200)
          /\ (exit_code = 2) <=> (status = 200 /\ chosen = None)
          /\ (exit_code = 3) <=> (status = 200 /\ chosen # None /\ chosen.content_b64 = "")
          /\ log = <<>> /\ typed = <<>> /\ reads = 0 /\ writes = 0
          /\ clipboard = clip0
    /\ (fpc = "inject" \/ log # <<>>) =>
          (status = 200 /\ chosen # None /\ chosen.content_b64 # "")

C13_Witness ==
    /\ fpc = "exit" /\ exit_code = 3 /\ status = 200 /\ chosen.clip_id = 1
    /\ chosen.device_id = "phone" /\ clip0 # <<>> /\ log = <<>>

----------------------------------------------------------------------------
(* Claims about send, checked under SpecSend *)

\* C14: where the primary selection can be read and is non-empty, the capture
\* step of send returns it and neither reads nor writes the clipboard.
C14_PrimarySelectionFirst ==
    (spc # "capture" /\ HasPrimaryRead(platform, tools) /\ primary # <<>>)
        => (send_reads = 0 /\ captured = primary /\ clipboard = clip0)

----------------------------------------------------------------------------
(* Claims about the Input Injector *)

\* C15: typing never reports success after the OS rejected an event: when
\* win_type_text has returned, every down and up event it submitted was accepted.
C15_TypingFailsOnRejectedEvent ==
    (fpc = "done" /\ platform = "windows") => typed = WinEvents(text)

\* C19: Unicode typing delivers for each character, in text order, one down
\* event then one up event, both carrying the character's code point.
C19_EventsCarryCodePoint ==
    (fpc = "done" /\ platform = "windows" /\ Len(typed) = 2 * Len(text))
        => \A k \in 1..Len(typed) :
               /\ typed[k].scan = text[(k + 1) \div 2]
               /\ typed[k].flags = IF k % 2 = 1 THEN KEYEVENTF_UNICODE
                                   ELSE KEYEVENTF_UNICODE + KEYEVENTF_KEYUP

----------------------------------------------------------------------------
(* Further claims about the capture *)

StopSample == new_text # original /\ new_text # <<>>

PollLoopInv ==
    /\ polls <= PollMax
    /\ stops <= 1
    /\ pc = "poll" => (polls < PollMax /\ stops = 0)
    /\ pc \in {"restore", "done"} =>
          /\ polls >= 1
          /\ (stops = 1) <=> StopSample
          /\ stops = 0 => polls = PollMax
    /\ pc = "done" => result = new_text

\* C16 (checked under SpecCaptureFair): the polling loop takes at most 50
\* samples and always ends; it goes on only while no sample differed from
\* `original` and was non-empty, so it stops at the first such sample, and the
\* capture then returns that sample.
C16_PollBoundedAndStops ==
    /\ []PollLoopInv
    /\ (pc = "poll") ~> (pc = "restore")

C16_Witness ==
    /\ pc = "done" /\ stops = 1 /\ polls > 1 /\ polls < PollMax
    /\ result = sel /\ original # <<>>

\* C17 (as stated): once the capture has returned, its snapshot read and its
\* restore write having succeeded, the clipboard holds `original`, whenever
\* the application reacts to the chord.
C17_KeptAfterReturn ==
    (pc = "done" /\ ~snapFail /\ ~restoreFail) => clipboard = original

\* C17 (amended): once the capture has returned after a restore write that
\* succeeded, the clipboard holds `original` as long as the application has
\* not written since the restore; a write of the application that comes after
\* the restore leaves the selection in the clipboard.
C17_KeptUnlessLateWrite ==
    /\ (pc = "done" /\ ~restoreFail /\ app = atReturn.app) => clipboard = original
    /\ (pc = "done" /\ app # atReturn.app) => clipboard = sel

C17_Witness ==
    /\ pc = "done" /\ ~restoreFail /\ ~snapFail
    /\ atReturn.app = "wrote" /\ app = "wrote"
    /\ polls > 1 /\ result = sel /\ sel # original /\ original # <<>>
    /\ clipboard = original

----------------------------------------------------------------------------
(* Claims about the focused application during a clipboard-mediated paste *)

\* C18 (as stated): what the focused application reads from the clipboard in
\* reaction to the paste chord is the fetched text.
C18_AppReadsPayload == papp = "read" => pasted = text

\* C18 (amended): the paste chord is issued only after the payload write, so
\* the application never reads before it; a read that happens before the
\* restore write yields the fetched text, and a read that happens after fetch
\* completed yields the restored original.
C18_AppReadsPayloadBeforeRestore ==
    /\ papp # "idle" =>
          /\ Len(log) >= 3
          /\ log[2] = Entry("write", text) /\ log[3] = Entry("paste", <<>>)
    /\ (papp = "read" /\ readAt = "restore") => pasted = text
    /\ (papp = "read" /\ readAt = "done") => pasted = original

C18_Witness ==
    /\ fpc = "done" /\ papp = "read" /\ readAt = "restore"
    /\ pasted = text /\ text # original /\ original # <<>> /\ clipboard = original

----------------------------------------------------------------------------
(* Claims about the copy chord, checked under SpecCapture *)

\* modifier down, key down, key up, modifier up
ChordOrder ==
    << [vk |-> VK_CONTROL, keyup |-> FALSE], [vk |-> VK_C, keyup |-> FALSE],
       [vk |-> VK_C, keyup |-> TRUE], [vk |-> VK_CONTROL, keyup |-> TRUE] >>

ChordSent == pc \in {"poll", "restore", "done"}

\* C20 (as stated): a chord reported as sent is exactly the four events in
\* the order modifier down, key down, key up, modifier up; and when the
\* submission failed partway, every key whose down event was accepted also
\* got its up event.
C20_ChordOrderAndRelease ==
    /\ ChordSent => sent = ChordOrder
    /\ pc = "raised" =>
          \A k \in 1..Len(sent) :
              ~sent[k].keyup =>
                  \E j \in (k + 1)..Len(sent) : sent[j].vk = sent[k].vk /\ sent[j].keyup

\* C20 (amended): a chord reported as sent is exactly those four events in
\* that order; when a submission fails, the events accepted so far are a
\* proper prefix of them and nothing more is submitted, so a key already
\* pressed stays pressed.
C20_ChordOrderOrPrefix ==
    /\ ChordSent => sent = ChordOrder
    /\ pc = "raised" =>
          /\ Len(sent) < Len(ChordOrder)
          /\ sent = SubSeq(ChordOrder, 1, Len(sent))

C20_Witness ==
    /\ pc = "raised" /\ Len(sent) = 2 /\ app = "wrote" /\ clipboard = sel
    /\ sel # clip0

====
